---- MODULE Spec2Model ----
(***************************************************************************)
(* Model of the tool registry, the dispatcher (MCPHandlers.call_tool) and  *)
(* the resilient backend client (circuit breaker, cache, retry, metrics)   *)
(* of the project-backlog MCP server.                                      *)
(***************************************************************************)
EXTENDS Integers, Sequences, FiniteSets, TLC

\* ---------------------------------------------------------------- bounds
MaxCalls == 9
MaxCacheCalls == 4
MaxElapse == 2
MaxCallerAttempts == 2

\* ------------------------------------------------------------ JSON values
JStr(s) == [t |-> "str", s |-> s]
JInt(n) == [t |-> "int", n |-> n]
JNull == [t |-> "null"]
JList(l) == [t |-> "list", items |-> l]

\* the empty mapping {}
EmptyMap == [k \in {} |-> JNull]

\* an optional argument: omitted (Python None) or given
Omitted == [given |-> FALSE]
Given(v) == [given |-> TRUE, v |-> v]

RECURSIVE JoinWith(_, _)
\* sep.join(parts)
JoinWith(parts, sep) ==
    IF parts = <<>> THEN ""
    ELSE IF Len(parts) = 1 THEN parts[1]
    ELSE parts[1] \o sep \o JoinWith(Tail(parts), sep)

\* JsonScalar with a bug: str(v) instead of the JSON encoding
JsonScalarAsStr(v) ==
    CASE v.t = "str" -> v.s
      [] v.t = "int" -> ToString(v.n)
      [] v.t = "null" -> "None"

\* json.dumps(v, indent=2, ensure_ascii=False) of a scalar
JsonScalar(v) ==
    CASE v.t = "str" -> "\"" \o v.s \o "\""
      [] v.t = "int" -> ToString(v.n)
      [] v.t = "null" -> "null"

\* json.dumps(v, indent=2, ensure_ascii=False); lists hold scalars
JsonDumps(v) ==
    IF v.t = "list"
    THEN IF v.items = <<>> THEN "[]"
         ELSE "[\n  "
              \o JoinWith([i \in 1..Len(v.items) |-> JsonScalar(v.items[i])], ",\n  ")
              \o "\n]"
    ELSE JsonScalar(v)

\* str(list_of_str), as an f-string prints a list of parameter names
PyListRepr(l) ==
    "[" \o JoinWith([i \in 1..Len(l) |-> "'" \o l[i] \o "'"], ", ") \o "]"

\* ------------------------------------------------------------- exceptions
\* core/exceptions.py; str(e) is e.message
ValidationError(message, missing_params) ==
    [type |-> "ValidationError", message |-> message,
     missing_params |-> missing_params]

ToolNotFoundError(tool_name) ==
    [type |-> "ToolNotFoundError",
     message |-> "Tool '" \o tool_name \o "' not found"]

HyperManagerAPIError(message) ==
    [type |-> "HyperManagerAPIError",
     message |-> "HyperManager API error: " \o message]

\* a builtin exception raised by a handler or by the backend
PyError(type, message) == [type |-> type, message |-> message]

\* outcome of a call: a returned value or a raised exception
Return(v) == [raised |-> FALSE, value |-> v]
Raise(e) == [raised |-> TRUE, exc |-> e]

\* --------------------------------------------------------------- registry
SeqToSet(s) == {s[i] : i \in 1..Len(s)}

\* position of key name in the insertion-ordered dict d, 0 when absent
DictIndex(d, name) ==
    IF \E i \in 1..Len(d) : d[i].name = name
    THEN CHOOSE i \in 1..Len(d) : d[i].name = name
    ELSE 0

\* DictSet with a bug: a key registered again moves to the end
DictSetMovesToEnd(d, def) ==
    Append(SelectSeq(d, LAMBDA x : x.name # def.name), def)

\* DictSet with a bug: a key registered again keeps its first definition
DictSetKeepsFirst(d, def) ==
    IF DictIndex(d, def.name) = 0 THEN Append(d, def) ELSE d

\* d[name] = def on an insertion-ordered dict: an existing key keeps its
\* position, a new key goes last
DictSet(d, def) ==
    LET i == DictIndex(d, def.name)
    IN IF i = 0 THEN Append(d, def) ELSE [d EXCEPT ![i] = def]

\* input_schema.get("required", [])
SchemaRequired(input_schema) ==
    IF "required" \in DOMAIN input_schema THEN input_schema.required ELSE <<>>

\* MakeToolDefinition with a bug: "required_params or schema's list", so an
\* explicit empty list falls back to the schema
MakeToolDefinitionEmptyFallsBack(name, description, input_schema, required_params, func) ==
    [name |-> name,
     description |-> description,
     input_schema |-> input_schema,
     handler |-> func,
     required_params |-> IF required_params.given /\ required_params.v # <<>>
                         THEN required_params.v
                         ELSE SchemaRequired(input_schema)]

\* the ToolDefinition built by register_tool's decorator
MakeToolDefinition(name, description, input_schema, required_params, func) ==
    [name |-> name,
     description |-> description,
     input_schema |-> input_schema,
     handler |-> func,
     required_params |-> IF required_params.given
                         THEN required_params.v
                         ELSE SchemaRequired(input_schema)]

\* ToolRegistry.get_tool
get_tool(reg, name) ==
    IF DictIndex(reg, name) = 0
    THEN Raise(ToolNotFoundError(name))
    ELSE Return(reg[DictIndex(reg, name)])

\* ToolRegistry.list_tools
list_tools(reg) ==
    [i \in 1..Len(reg) |->
        [name |-> reg[i].name,
         description |-> reg[i].description,
         inputSchema |-> reg[i].input_schema]]

\* MissingParams with a bug: the loop stops at the first missing parameter
MissingParamsFirstOnly(required_params, arguments) ==
    LET all == SelectSeq(required_params, LAMBDA p : p \notin DOMAIN arguments)
    IN IF all = <<>> THEN <<>> ELSE <<all[1]>>

\* MissingParams with a bug: a parameter given as None counts as missing
MissingParamsNoneIsMissing(required_params, arguments) ==
    SelectSeq(required_params,
              LAMBDA p : p \notin DOMAIN arguments \/ arguments[p] = JNull)

\* the missing_params list built by validate_parameters
MissingParams(required_params, arguments) ==
    SelectSeq(required_params, LAMBDA p : p \notin DOMAIN arguments)

\* ToolRegistry.validate_parameters
validate_parameters(reg, tool_name, arguments) ==
    LET got == get_tool(reg, tool_name)
    IN IF got.raised THEN got
       ELSE LET missing_params ==
                    MissingParams(got.value.required_params, arguments)
            IN IF missing_params # <<>>
               THEN Raise(ValidationError(
                        "Missing required parameters for tool '" \o tool_name
                            \o "': " \o PyListRepr(missing_params),
                        missing_params))
               ELSE Return(JNull)

\* ---------------------------------------------------------------- handlers
\* tools.py: a registered handler, its keyword signature and what it does
EchoHandler ==
    [fn |-> "echo", kind |-> "echo", params |-> <<"msg">>,
     needs |-> <<"msg">>, varkw |-> FALSE, op |-> ""]

CreateProjectHandler ==
    [fn |-> "create_project", kind |-> "api",
     params |-> <<"name", "code", "client_name", "description">>,
     needs |-> <<"name", "code">>, varkw |-> FALSE, op |-> "create_project"]

CustomHandler ==
    [fn |-> "custom", kind |-> "opaque", params |-> <<>>,
     needs |-> <<>>, varkw |-> TRUE, op |-> ""]

EchoSchema ==
    [type |-> "object", properties |-> {"msg"}, required |-> <<"msg">>]

EchoSchemaNoRequired == [type |-> "object", properties |-> {"msg"}]

CreateProjectSchema ==
    [type |-> "object",
     properties |-> {"name", "code", "client_name", "description"},
     required |-> <<"name", "code">>]

CustomSchema ==
    [type |-> "object", properties |-> {"id"}, required |-> <<"id">>]

\* the register_tool calls the model draws from
ToolCatalog ==
    { [name |-> "echo", description |-> "Echo a message",
       input_schema |-> EchoSchema, required_params |-> Omitted,
       handler |-> EchoHandler],
      [name |-> "echo", description |-> "Echo (no required list)",
       input_schema |-> EchoSchemaNoRequired, required_params |-> Omitted,
       handler |-> EchoHandler],
      [name |-> "create_project",
       description |-> "Create a new project with name, code, client name and description",
       input_schema |-> CreateProjectSchema, required_params |-> Omitted,
       handler |-> CreateProjectHandler],
      [name |-> "custom", description |-> "Custom tool (id and name required)",
       input_schema |-> CustomSchema, required_params |-> Given(<<"id", "name">>),
       handler |-> CustomHandler],
      [name |-> "custom", description |-> "Custom tool",
       input_schema |-> CustomSchema, required_params |-> Given(<<>>),
       handler |-> CustomHandler] }

ToolNames == {c.name : c \in ToolCatalog} \cup {"nope"}

\* the arguments of a tools/call request: omitted or a mapping
ArgChoices ==
    { Omitted,
      Given(EmptyMap),
      Given([msg |-> JStr("hi")]),
      Given([msg |-> JNull]),
      Given([msg |-> JStr("hi"), extra |-> JInt(1)]),
      Given([name |-> JStr("p")]),
      Given([name |-> JStr("p"), code |-> JStr("c")]),
      Given([id |-> JInt(1)]) }

\* what a handler body or a backend operation can do
Outcomes ==
    { Return(JStr("ok")), Return(JNull),
      Return(JList(<<JStr("a"), JInt(1), JNull>>)), Return(JList(<<>>)),
      Raise(ValidationError("bad input", <<"x">>)),
      Raise(ToolNotFoundError("inner")),
      Raise(HyperManagerAPIError("Failed to execute get_x: boom")),
      Raise(PyError("ValueError", "Story ID must be a non-empty string")) }

\* handler(**arguments): the TypeError Python raises when the keywords do not
\* fit the signature, else NoError
NoError == [type |-> "none", message |-> ""]

BindError(handler, arguments) ==
    LET unexpected == DOMAIN arguments \ SeqToSet(handler.params)
        absent == SelectSeq(handler.needs, LAMBDA p : p \notin DOMAIN arguments)
        quoted == [i \in 1..Len(absent) |-> "'" \o absent[i] \o "'"]
    IN IF ~handler.varkw /\ unexpected # {}
       THEN PyError("TypeError",
                handler.fn \o "() got an unexpected keyword argument '"
                    \o (CHOOSE k \in unexpected : TRUE) \o "'")
       ELSE IF absent # <<>>
       THEN PyError("TypeError",
                handler.fn \o "() missing " \o ToString(Len(absent))
                    \o " required positional argument"
                    \o (IF Len(absent) = 1 THEN ": " ELSE "s: ")
                    \o JoinWith(quoted, " and "))
       ELSE NoError

\* HyperManagerClient.execute_with_error_handling (the plain client the
\* registered tools' services use): one backend call, failures wrapped
PlainExecute(operation_name, backend) ==
    IF backend.raised
    THEN Raise(HyperManagerAPIError(
             "Failed to execute " \o operation_name \o ": " \o backend.exc.message))
    ELSE backend

\* tool_def.handler(**arguments): out is what the handler body (opaque) or
\* the backend operation (api) does
HandlerRun(handler, arguments, out) ==
    LET err == BindError(handler, arguments)
    IN IF err # NoError
       THEN [out |-> Raise(err), backend |-> 0]
       ELSE CASE handler.kind = "echo" ->
                    [out |-> Return(arguments["msg"]), backend |-> 0]
              [] handler.kind = "api" ->
                    [out |-> PlainExecute(handler.op, out), backend |-> 1]
              [] handler.kind = "opaque" ->
                    [out |-> out, backend |-> 0]

\* ------------------------------------------------------------- dispatcher
\* MCPHandlers._create_success_result
create_success_result(result) ==
    [content |-> <<[type |-> "text", text |-> JsonDumps(result)]>>,
     isError |-> FALSE]

\* MCPHandlers._create_error_result
create_error_result(error_message) ==
    [content |-> <<[type |-> "text", text |-> error_message]>>,
     isError |-> TRUE]

\* CatchToolError with a bug: registry errors are raised again
CatchToolErrorReraises(e) ==
    IF e.type \in {"ValidationError", "ToolNotFoundError"}
    THEN Raise(e)
    ELSE Return(create_error_result("Tool execution failed: " \o e.message))

\* the two except clauses of call_tool
CatchToolError(e) ==
    IF e.type \in {"ValidationError", "ToolNotFoundError"}
    THEN Return(create_error_result(e.message))
    ELSE Return(create_error_result("Tool execution failed: " \o e.message))

\* ReachesHandler with a bug: a validation error does not stop the call
ReachesHandlerDespiteMissing(validated) ==
    ~validated.raised \/ validated.exc.type = "ValidationError"

\* whether call_tool reaches the handler: validation comes first
ReachesHandler(validated) == ~validated.raised

\* MCPHandlers.call_tool: the result, and how often the handler and the
\* backend were called
call_tool(reg, name, arguments_opt, out) ==
    LET arguments == IF arguments_opt.given THEN arguments_opt.v ELSE EmptyMap
        validated == validate_parameters(reg, name, arguments)
    IN IF ~ReachesHandler(validated)
       THEN [result |-> CatchToolError(validated.exc), handler |-> 0, backend |-> 0]
       ELSE LET tool_def == get_tool(reg, name)
            IN IF tool_def.raised
               THEN [result |-> CatchToolError(tool_def.exc),
                     handler |-> 0, backend |-> 0]
               ELSE LET run == HandlerRun(tool_def.value.handler, arguments, out)
                    IN [result |-> IF run.out.raised
                                   THEN CatchToolError(run.out.exc)
                                   ELSE Return(create_success_result(run.out.value)),
                        handler |-> 1, backend |-> run.backend]

\* ------------------------------------------------------ resilient client
\* time is counted in tenths of a second
TicksPerSecond == 10

failure_threshold == 5
recovery_timeout == 60
default_ttl == 300
max_retries == 3
\* backoff_factor = 0.3 s, in ticks
backoff_factor == 3
ListTtl == 300
ItemTtl == 60

\* last_failure_time = None
NoTime == -1

\* CircuitBreaker.__init__
NewCircuitBreaker ==
    [state |-> "CLOSED", failure_count |-> 0, last_failure_time |-> NoTime]

\* BreakerAdmit with a bug: after the timeout the breaker is closed at once
BreakerAdmitClosesAtOnce(cb, t) ==
    IF cb.state = "OPEN"
    THEN IF t - cb.last_failure_time > recovery_timeout * TicksPerSecond
         THEN [admitted |-> TRUE, cb |-> [cb EXCEPT !.state = "CLOSED"]]
         ELSE [admitted |-> FALSE, cb |-> cb]
    ELSE [admitted |-> TRUE, cb |-> cb]

\* BreakerAdmit with a bug: a rejected call counts as the last failure
BreakerAdmitRejectionPostpones(cb, t) ==
    IF cb.state = "OPEN"
    THEN IF t - cb.last_failure_time > recovery_timeout * TicksPerSecond
         THEN [admitted |-> TRUE, cb |-> [cb EXCEPT !.state = "HALF_OPEN"]]
         ELSE [admitted |-> FALSE, cb |-> [cb EXCEPT !.last_failure_time = t]]
    ELSE [admitted |-> TRUE, cb |-> cb]

\* CircuitBreaker.call, the check made before the function is called
BreakerAdmit(cb, t) ==
    IF cb.state = "OPEN"
    THEN IF t - cb.last_failure_time > recovery_timeout * TicksPerSecond
         THEN [admitted |-> TRUE, cb |-> [cb EXCEPT !.state = "HALF_OPEN"]]
         ELSE [admitted |-> FALSE, cb |-> cb]
    ELSE [admitted |-> TRUE, cb |-> cb]

\* BreakerOnSuccess with a bug: the trial success closes the breaker but
\* keeps the failure count
BreakerOnSuccessKeepsCount(cb) ==
    IF cb.state = "HALF_OPEN"
    THEN [cb EXCEPT !.state = "CLOSED"]
    ELSE cb

\* CircuitBreaker.call, after the function returned
BreakerOnSuccess(cb) ==
    IF cb.state = "HALF_OPEN"
    THEN [cb EXCEPT !.state = "CLOSED", !.failure_count = 0]
    ELSE cb

\* BreakerOnFailure with a bug: the breaker opens one failure late
BreakerOnFailureOpensLate(cb, t) ==
    LET counted == [cb EXCEPT !.failure_count = cb.failure_count + 1,
                              !.last_failure_time = t]
    IN IF counted.failure_count > failure_threshold
       THEN [counted EXCEPT !.state = "OPEN"]
       ELSE counted

\* BreakerOnFailure with a bug: a failed trial call keeps the old failure time
BreakerOnFailureKeepsTrialTime(cb, t) ==
    LET counted == [cb EXCEPT !.failure_count = cb.failure_count + 1,
                              !.last_failure_time =
                                  IF cb.state = "HALF_OPEN"
                                  THEN cb.last_failure_time ELSE t]
    IN IF counted.failure_count >= failure_threshold
       THEN [counted EXCEPT !.state = "OPEN"]
       ELSE counted

\* CircuitBreaker.call, after the function raised at time t
BreakerOnFailure(cb, t) ==
    LET counted == [cb EXCEPT !.failure_count = cb.failure_count + 1,
                              !.last_failure_time = t]
    IN IF counted.failure_count >= failure_threshold
       THEN [counted EXCEPT !.state = "OPEN"]
       ELSE counted

\* the exception CircuitBreaker.call raises when it rejects a call
CircuitOpenError == HyperManagerAPIError("Circuit breaker is OPEN")

\* a dict without key k
DictDel(d, k) == [x \in DOMAIN d \ {k} |-> d[x]]

\* d[k] = v
DictPut(d, k, v) == [x \in DOMAIN d \cup {k} |-> IF x = k THEN v ELSE d[x]]

\* cache_get with a bug: an entry is still served at its expiry time
cache_get_at_expiry(cache, key, t) ==
    IF key \in DOMAIN cache
    THEN IF t <= cache[key].expires
         THEN [value |-> cache[key].value, cache |-> cache]
         ELSE [value |-> JNull, cache |-> DictDel(cache, key)]
    ELSE [value |-> JNull, cache |-> cache]

\* APICache.get at time t: the returned value (None when absent or expired)
\* and the cache afterwards
cache_get(cache, key, t) ==
    IF key \in DOMAIN cache
    THEN IF t < cache[key].expires
         THEN [value |-> cache[key].value, cache |-> cache]
         ELSE [value |-> JNull, cache |-> DictDel(cache, key)]
    ELSE [value |-> JNull, cache |-> cache]

\* cache_set with a bug: a None result is not stored
cache_set_skips_none(cache, key, value, ttl, t) ==
    LET used == IF ttl = 0 THEN default_ttl ELSE ttl
    IN IF value = JNull THEN cache
       ELSE DictPut(cache, key,
                    [value |-> value, expires |-> t + used * TicksPerSecond])

\* APICache.set at time t, ttl in seconds
cache_set(cache, key, value, ttl, t) ==
    LET used == IF ttl = 0 THEN default_ttl ELSE ttl
    IN DictPut(cache, key,
               [value |-> value, expires |-> t + used * TicksPerSecond])

\* str(v)
PyStr(v) ==
    CASE v.t = "str" -> v.s
      [] v.t = "int" -> ToString(v.n)
      [] v.t = "null" -> "None"

\* the keyword names in use, in string order
KeywordOrder == <<"a", "b", "code", "name", "project_id">>

KeywordRank(k) == CHOOSE i \in 1..Len(KeywordOrder) : KeywordOrder[i] = k

\* SortedItems with a bug: the items are left in the caller's order
SortedItemsAsWritten(kwargs) == kwargs

RECURSIVE SortedItems(_)
\* sorted(kwargs.items()): kwargs is the sequence of <<name, value>> pairs
\* in the order the caller wrote them
SortedItems(kwargs) ==
    IF kwargs = <<>> THEN <<>>
    ELSE LET i == CHOOSE i \in 1..Len(kwargs) :
                      \A j \in 1..Len(kwargs) :
                          KeywordRank(kwargs[i][1]) <= KeywordRank(kwargs[j][1])
         IN <<kwargs[i]>> \o
            SortedItems([j \in 1..(Len(kwargs) - 1) |->
                            IF j < i THEN kwargs[j] ELSE kwargs[j + 1]])

\* OptimizedHyperManagerClient._generate_cache_key
generate_cache_key(operation_name, args, kwargs) ==
    LET items == SortedItems(kwargs)
    IN JoinWith(<<operation_name>>
                \o [i \in 1..Len(args) |-> PyStr(args[i])]
                \o [i \in 1..Len(items) |->
                       items[i][1] \o "=" \o PyStr(items[i][2])],
                "|")

\* is_cacheable_operation with a bug: a write operation is in the allow-list
is_cacheable_operation_with_write(operation_name) ==
    operation_name \in
        {"list_projects", "get_project", "get_projects_tree",
         "list_diagrams", "get_diagram", "get_diagram_definition",
         "get_feature_types", "get_story_tree", "get_story",
         "get_feature", "get_actor", "get_story_features",
         "get_feature_children", "get_actor_stories", "create_project"}

\* OptimizedHyperManagerClient._is_cacheable_operation
is_cacheable_operation(operation_name) ==
    operation_name \in
        {"list_projects", "get_project", "get_projects_tree",
         "list_diagrams", "get_diagram", "get_diagram_definition",
         "get_feature_types", "get_story_tree", "get_story",
         "get_feature", "get_actor", "get_story_features",
         "get_feature_children", "get_actor_stories"}

\* 'list' in operation_name, for the operation names in use
ContainsList(operation_name) ==
    operation_name \in {"list_projects", "list_diagrams"}

\* TtlFor with a bug: every operation gets the TTL of a single item
TtlForItemAlways(operation_name) == ItemTtl

\* ttl = 300 if 'list' in operation_name else 60
TtlFor(operation_name) ==
    IF ContainsList(operation_name) THEN ListTtl ELSE ItemTtl

\* OptimizedHyperManagerClient.__init__: metrics; the average is the
\* fraction num/den of ticks
NewMetrics ==
    [total_calls |-> 0, successful_calls |-> 0, failed_calls |-> 0,
     cache_hits |-> 0, average_response_time |-> [num |-> 0, den |-> 1]]

RECURSIVE Gcd(_, _)
Gcd(a, b) == IF b = 0 THEN a ELSE Gcd(b, a % b)

\* the fraction n/d in lowest terms
Fraction(n, d) ==
    LET g == Gcd(n, d) IN IF g = 0 THEN [num |-> 0, den |-> 1]
                          ELSE [num |-> n \div g, den |-> d \div g]

\* OptimizedHyperManagerClient._update_average_response_time
update_average_response_time(m, response_time) ==
    LET total_successful == m.successful_calls
        current_avg == m.average_response_time
    IN [m EXCEPT !.average_response_time =
            Fraction(current_avg.num * (total_successful - 1)
                         + response_time * current_avg.den,
                     current_avg.den * total_successful)]

\* round(n / d * 100, 2), in hundredths of a percent; n / d * 100 is never
\* halfway between two hundredths when d < 32
RoundPercent(n, d) == (20000 * n + d) \div (2 * d)

\* OptimizedHyperManagerClient.get_metrics
get_metrics(m, cb) ==
    [total_calls |-> m.total_calls,
     successful_calls |-> m.successful_calls,
     failed_calls |-> m.failed_calls,
     cache_hits |-> m.cache_hits,
     average_response_time |-> m.average_response_time,
     success_rate_percent |->
         IF m.total_calls > 0
         THEN RoundPercent(m.successful_calls, m.total_calls) ELSE 0,
     cache_hit_rate_percent |->
         IF m.total_calls > 0
         THEN RoundPercent(m.cache_hits, m.total_calls) ELSE 0,
     circuit_breaker_state |-> cb.state]

\* WrapFailure with a bug: the exception is passed on as it is
WrapFailureRaw(operation_name, e) == e

\* the except clause of execute_with_error_handling
WrapFailure(operation_name, e) ==
    HyperManagerAPIError("Failed to execute " \o operation_name \o ": " \o e.message)

\* WaitTime with a bug: the wait grows linearly
WaitTimeLinear(attempt) == backoff_factor * (attempt + 1)

\* retry_on_failure: the wait after failed attempt number attempt, in ticks
WaitTime(attempt) == backoff_factor * (2 ^ attempt)

\* Retries with a bug: a failed attempt is retried once only
RetriesOnce(attempt) == attempt < 1

\* retry_on_failure: whether failed attempt number attempt is retried
Retries(attempt) == attempt < max_retries

\* ------------------------------------------------------------------ state
VARIABLES
    tools,            \* ToolRegistry._tools, in insertion order
    regOrder,         \* history: the tool names, in order of first registration
    regLatest,        \* history: the latest register_tool call of each name
    listed,           \* the result of list_tools, until the next registration
    response,         \* the outcome of call_tool, when it was the last step
    handlerCalls,     \* how often the last call_tool called a tool handler
    plainCalls,       \* how often the last call_tool invoked a backend operation
    backendCalls,     \* history: backend operations invoked by the resilient client
    lastOp,           \* history: the operation the last step performed
    circuit_breaker,  \* OptimizedHyperManagerClient.circuit_breaker
    cache,            \* OptimizedHyperManagerClient.cache.cache
    metrics,          \* OptimizedHyperManagerClient.metrics
    now,              \* time.time(), in ticks
    pc,               \* where the caller of the client is
    call,             \* the execute_with_error_handling call in progress
    outcome,          \* what the last finished client call gave its caller
    trace,            \* history: how each attempt of the current call ended
    streak,           \* history: consecutive backend failures, up to now
    nElapse,          \* history: number of Elapse steps
    threads           \* the concurrent callers of the client: where each is

registryVars == <<tools, regOrder, regLatest, listed, response, handlerCalls,
                  plainCalls>>
clientVars == <<circuit_breaker, cache, metrics, now, pc, call, outcome,
                trace, streak, nElapse>>
vars == <<tools, regOrder, regLatest, listed, response, handlerCalls,
          plainCalls, backendCalls, lastOp,
          circuit_breaker, cache, metrics, now, pc, call, outcome, trace,
          streak, nElapse, threads>>

NoOutcome == [none |-> TRUE]

\* the threads that call the one client at the same time
Callers == {"A", "B"}

\* a caller between two attempts: reg is the value it last read from a shared
\* counter, started and failures count its attempts and its backend failures
NoThread == [pc |-> "idle", reg |-> 0, started |-> 0, failures |-> 0]
NoCall == [op |-> "", args |-> <<>>, kwargs |-> <<>>, attempt |-> 0,
           start_time |-> 0, last_exception |-> NoError, slept |-> <<>>,
           fresh |-> FALSE, calls0 |-> 0]

Init ==
    /\ tools = <<>>
    /\ regOrder = <<>>
    /\ regLatest = EmptyMap
    /\ listed = NoOutcome
    /\ response = NoOutcome
    /\ handlerCalls = 0
    /\ plainCalls = 0
    /\ backendCalls = 0
    /\ lastOp = [op |-> "init"]
    /\ circuit_breaker = NewCircuitBreaker
    /\ cache = EmptyMap
    /\ metrics = NewMetrics
    /\ now = 0
    /\ pc = "idle"
    /\ call = NoCall
    /\ outcome = NoOutcome
    /\ trace = <<>>
    /\ streak = 0
    /\ nElapse = 0
    /\ threads = [t \in Callers |-> NoThread]

\* ------------------------------------------------- registry and dispatcher
\* ToolRegistry.register_tool(...)(func)
Register(c) ==
    /\ tools' = DictSet(tools,
                    MakeToolDefinition(c.name, c.description, c.input_schema,
                                       c.required_params, c.handler))
    /\ regOrder' = IF c.name \in SeqToSet(regOrder) THEN regOrder
                    ELSE Append(regOrder, c.name)
    /\ regLatest' = DictPut(regLatest, c.name, c)
    /\ listed' = NoOutcome
    /\ response' = NoOutcome
    /\ handlerCalls' = 0
    /\ plainCalls' = 0
    /\ lastOp' = [op |-> "register_tool", name |-> c.name]
    /\ UNCHANGED backendCalls
    /\ UNCHANGED clientVars
    /\ UNCHANGED threads

\* ToolRegistry.list_tools
ListTools ==
    /\ listed' = Return(list_tools(tools))
    /\ response' = NoOutcome
    /\ handlerCalls' = 0
    /\ plainCalls' = 0
    /\ lastOp' = [op |-> "list_tools"]
    /\ UNCHANGED <<tools, regOrder, regLatest, backendCalls>>
    /\ UNCHANGED clientVars
    /\ UNCHANGED threads

\* the outcomes that matter to a call of tool name: none for an unknown tool
\* or a handler that neither calls the backend nor can fail
OutcomesFor(reg, name) ==
    IF DictIndex(reg, name) # 0 /\ reg[DictIndex(reg, name)].handler.kind # "echo"
    THEN Outcomes
    ELSE {Return(JNull)}

\* MCPHandlers.call_tool(name, arguments); out is what the handler body or
\* the backend does if it is reached
CallTool(name, arguments, out) ==
    LET r == call_tool(tools, name, arguments, out)
    IN /\ response' = r.result
       /\ handlerCalls' = r.handler
       /\ plainCalls' = r.backend
       /\ lastOp' = [op |-> "call_tool", name |-> name,
                     arguments |-> arguments, out |-> out]
       /\ UNCHANGED <<tools, regOrder, regLatest, listed, backendCalls>>
       /\ UNCHANGED clientVars
       /\ UNCHANGED threads

Next ==
    \/ \E c \in ToolCatalog : Register(c)
    \/ ListTools
    \/ \E name \in ToolNames, arguments \in ArgChoices :
           \E out \in OutcomesFor(tools, name) : CallTool(name, arguments, out)

Spec == Init /\ [][Next]_vars

\* -------------------------------------------------------- resilient client
\* the calls of execute_with_error_handling the model draws from
InvokeChoices ==
    { [op |-> "get_project", args |-> <<>>,
       kwargs |-> <<<<"project_id", JStr("p1")>>>>],
      [op |-> "list_projects", args |-> <<>>, kwargs |-> <<>>],
      [op |-> "create_project", args |-> <<>>,
       kwargs |-> <<<<"name", JStr("p")>>, <<"code", JStr("c")>>>>] }

\* what the backend operation can do
BackendResults == {JStr("ok"), JNull}
BackendErrors == {PyError("ConnectionError", "connection refused")}

\* the client is called: the retry wrapper starts its loop
Invoke(c) ==
    /\ pc = "idle"
    /\ pc' = "enter"
    /\ call' = [op |-> c.op, args |-> c.args, kwargs |-> c.kwargs,
                attempt |-> 0, start_time |-> now,
                last_exception |-> NoError, slept |-> <<>>,
                fresh |-> circuit_breaker = NewCircuitBreaker,
                calls0 |-> backendCalls]
    /\ outcome' = NoOutcome
    /\ trace' = <<>>
    /\ lastOp' = [op |-> "invoke", name |-> c.op]
    /\ UNCHANGED <<circuit_breaker, cache, metrics, now, streak, nElapse,
                   backendCalls>>
    /\ UNCHANGED registryVars
    /\ UNCHANGED threads

\* AttemptFailed with a bug: the failure is not counted
AttemptFailedUncounted(m, t, e, how) ==
    /\ metrics' = m
    /\ trace' = Append(trace, how)
    /\ call' = [call EXCEPT !.start_time = t,
                            !.last_exception = WrapFailure(call.op, e)]
    /\ IF Retries(call.attempt)
       THEN /\ pc' = "sleep"
            /\ outcome' = outcome
       ELSE /\ pc' = "idle"
            /\ outcome' = Raise(WrapFailure(call.op, e))

\* an attempt that started at time t raised e: the except clause of
\* execute_with_error_handling, then the except clause of the retry loop
AttemptFailed(m, t, e, how) ==
    /\ metrics' = [m EXCEPT !.failed_calls = m.failed_calls + 1]
    /\ trace' = Append(trace, how)
    /\ call' = [call EXCEPT !.start_time = t,
                            !.last_exception = WrapFailure(call.op, e)]
    /\ IF Retries(call.attempt)
       THEN /\ pc' = "sleep"
            /\ outcome' = outcome
       ELSE /\ pc' = "idle"
            /\ outcome' = Raise(WrapFailure(call.op, e))

\* Enter with a bug: the breaker is asked before the cache is looked up
EnterBreakerFirst ==
    /\ pc = "enter"
    /\ LET m == [metrics EXCEPT !.total_calls = metrics.total_calls + 1]
           cacheable == is_cacheable_operation(call.op)
           cache_key == generate_cache_key(call.op, call.args, call.kwargs)
           admit == BreakerAdmit(circuit_breaker, now)
           got == IF cacheable /\ admit.admitted
                  THEN cache_get(cache, cache_key, now)
                  ELSE [value |-> JNull, cache |-> cache]
       IN /\ cache' = got.cache
          /\ IF ~admit.admitted
             THEN /\ AttemptFailed(m, now, CircuitOpenError, "rejected")
                  /\ UNCHANGED <<circuit_breaker, backendCalls>>
             ELSE IF cacheable /\ got.value # JNull
             THEN /\ metrics' = [m EXCEPT !.cache_hits = m.cache_hits + 1]
                  /\ call' = [call EXCEPT !.start_time = now]
                  /\ pc' = "idle"
                  /\ outcome' = Return(got.value)
                  /\ trace' = Append(trace, "hit")
                  /\ circuit_breaker' = admit.cb
                  /\ UNCHANGED backendCalls
             ELSE /\ circuit_breaker' = admit.cb
                  /\ backendCalls' = backendCalls + 1
                  /\ metrics' = m
                  /\ call' = [call EXCEPT !.start_time = now]
                  /\ pc' = "backend"
                  /\ UNCHANGED <<outcome, trace>>
    /\ lastOp' = [op |-> "enter"]
    /\ UNCHANGED <<now, streak, nElapse>>
    /\ UNCHANGED registryVars
    /\ UNCHANGED threads

\* execute_with_error_handling up to the point where the breaker lets the
\* backend operation start
Enter ==
    /\ pc = "enter"
    /\ LET m == [metrics EXCEPT !.total_calls = metrics.total_calls + 1]
           cacheable == is_cacheable_operation(call.op)
           cache_key == generate_cache_key(call.op, call.args, call.kwargs)
           got == IF cacheable THEN cache_get(cache, cache_key, now)
                  ELSE [value |-> JNull, cache |-> cache]
           admit == BreakerAdmit(circuit_breaker, now)
       IN /\ cache' = got.cache
          /\ IF cacheable /\ got.value # JNull
             THEN /\ metrics' = [m EXCEPT !.cache_hits = m.cache_hits + 1]
                  /\ call' = [call EXCEPT !.start_time = now]
                  /\ pc' = "idle"
                  /\ outcome' = Return(got.value)
                  /\ trace' = Append(trace, "hit")
                  /\ UNCHANGED <<circuit_breaker, backendCalls>>
             ELSE IF admit.admitted
             THEN /\ circuit_breaker' = admit.cb
                  /\ backendCalls' = backendCalls + 1
                  /\ metrics' = m
                  /\ call' = [call EXCEPT !.start_time = now]
                  /\ pc' = "backend"
                  /\ UNCHANGED <<outcome, trace>>
             ELSE /\ AttemptFailed(m, now, CircuitOpenError, "rejected")
                  /\ circuit_breaker' = admit.cb
                  /\ UNCHANGED backendCalls
    /\ lastOp' = [op |-> "enter"]
    /\ UNCHANGED <<now, streak, nElapse>>
    /\ UNCHANGED registryVars
    /\ UNCHANGED threads

\* the backend operation returns result
BackendReturn(result) ==
    /\ pc = "backend"
    /\ LET t == now
           stored == IF is_cacheable_operation(call.op)
                     THEN cache_set(cache,
                              generate_cache_key(call.op, call.args, call.kwargs),
                              result, TtlFor(call.op), t)
                     ELSE cache
           counted == [metrics EXCEPT !.successful_calls =
                                          metrics.successful_calls + 1]
       IN /\ circuit_breaker' = BreakerOnSuccess(circuit_breaker)
          /\ cache' = stored
          /\ metrics' = update_average_response_time(counted, t - call.start_time)
    /\ pc' = "idle"
    /\ outcome' = Return(result)
    /\ trace' = Append(trace, "ok")
    /\ streak' = 0
    /\ lastOp' = [op |-> "backend_return", result |-> result]
    /\ UNCHANGED <<now, call, nElapse, backendCalls>>
    /\ UNCHANGED registryVars
    /\ UNCHANGED threads

\* the backend operation raises e
BackendRaise(e) ==
    /\ pc = "backend"
    /\ circuit_breaker' = BreakerOnFailure(circuit_breaker, now)
    /\ AttemptFailed(metrics, call.start_time, e, "fail")
    /\ streak' = streak + 1
    /\ lastOp' = [op |-> "backend_raise"]
    /\ UNCHANGED <<now, cache, nElapse, backendCalls>>
    /\ UNCHANGED registryVars
    /\ UNCHANGED threads

\* time.sleep(wait_time) in the retry loop, then the next attempt
Sleep ==
    /\ pc = "sleep"
    /\ now' = now + WaitTime(call.attempt)
    /\ call' = [call EXCEPT !.attempt = call.attempt + 1,
                            !.slept = Append(call.slept, WaitTime(call.attempt))]
    /\ pc' = "enter"
    /\ lastOp' = [op |-> "sleep"]
    /\ UNCHANGED <<circuit_breaker, cache, metrics, outcome, trace, streak,
                   nElapse, backendCalls>>
    /\ UNCHANGED registryVars
    /\ UNCHANGED threads

\* time passes, between two calls of the client or while the backend works
ElapseSteps == {1, 600, 3000}

Elapse(d) ==
    /\ pc \in {"idle", "backend"}
    /\ now' = now + d
    /\ nElapse' = nElapse + 1
    /\ lastOp' = [op |-> "elapse"]
    /\ UNCHANGED <<circuit_breaker, cache, metrics, pc, call, outcome, trace,
                   streak, backendCalls>>
    /\ UNCHANGED registryVars
    /\ UNCHANGED threads

MayCall == metrics.total_calls < MaxCalls
MayCallCache == metrics.total_calls < MaxCacheCalls

\* the whole client, cacheable operations included
NextClient ==
    \/ \E c \in InvokeChoices : MayCallCache /\ Invoke(c)
    \/ MayCallCache /\ Enter
    \/ \E result \in BackendResults : BackendReturn(result)
    \/ \E e \in BackendErrors : BackendRaise(e)
    \/ Sleep
    \/ \E d \in ElapseSteps : nElapse < MaxElapse /\ Elapse(d)

SpecClient == Init /\ [][NextClient]_vars

\* the circuit breaker and the retry loop alone: only an operation that is
\* not cacheable is called
BreakerChoices == {c \in InvokeChoices : ~is_cacheable_operation(c.op)}

\* the pauses between calls: a moment, the recovery timeout less the time a
\* call spends sleeping between its attempts, and the recovery timeout
BreakerElapseSteps ==
    {1,
     recovery_timeout * TicksPerSecond
         - (WaitTime(0) + WaitTime(1) + WaitTime(2)),
     recovery_timeout * TicksPerSecond}

NextBreaker ==
    \/ \E c \in BreakerChoices : MayCall /\ Invoke(c)
    \/ MayCall /\ Enter
    \/ BackendReturn(JStr("ok"))
    \/ \E e \in BackendErrors : BackendRaise(e)
    \/ Sleep
    \/ \E d \in BreakerElapseSteps : nElapse < MaxElapse /\ Elapse(d)

SpecBreaker == Init /\ [][NextBreaker]_vars

\* the cache key alone: one cacheable operation called with the same named
\* arguments written in either order, and with other values
KeyChoices ==
    { [op |-> "get_project", args |-> <<>>,
       kwargs |-> <<<<"a", JInt(1)>>, <<"b", JInt(2)>>>>],
      [op |-> "get_project", args |-> <<>>,
       kwargs |-> <<<<"b", JInt(2)>>, <<"a", JInt(1)>>>>],
      [op |-> "get_project", args |-> <<>>,
       kwargs |-> <<<<"a", JInt(2)>>, <<"b", JInt(1)>>>>] }

\* an operation_func that returns the name of the first keyword it was given
FirstKeyword(kwargs) == JStr(kwargs[1][1])

NextKey ==
    \/ \E c \in KeyChoices : MayCallCache /\ Invoke(c)
    \/ MayCallCache /\ Enter
    \/ BackendReturn(FirstKeyword(call.kwargs))
    \/ \E e \in BackendErrors : BackendRaise(e)
    \/ Sleep
    \/ \E d \in ElapseSteps : nElapse < MaxElapse /\ Elapse(d)

SpecKey == Init /\ [][NextKey]_vars

\* the cache and the breaker together: a cacheable and a non-cacheable
\* operation, the backend returning a value or raising, up to the bound on
\* attempts that lets the breaker open
GuardedChoices ==
    {c \in InvokeChoices : c.op \in {"get_project", "create_project"}}

NextGuarded ==
    \/ \E c \in GuardedChoices : MayCall /\ Invoke(c)
    \/ MayCall /\ Enter
    \/ BackendReturn(JStr("ok"))
    \/ \E e \in BackendErrors : BackendRaise(e)
    \/ Sleep
    \/ nElapse < MaxElapse /\ Elapse(recovery_timeout * TicksPerSecond)

SpecGuarded == Init /\ [][NextGuarded]_vars

\* ------------------------------------------------------ concurrent callers
\* Several threads run attempts of execute_with_error_handling on the one
\* client. Nothing in the client takes a lock, so each "+= 1" is a read and a
\* later write, and another thread may run between the two.
SetThread(t, pcNew, regNew) ==
    [threads EXCEPT ![t].pc = pcNew, ![t].reg = regNew]

\* what no caller's step changes
callerUnchanged == <<cache, now, pc, call, outcome, trace, streak, nElapse,
                     backendCalls, lastOp, registryVars>>

\* an attempt starts: metrics['total_calls'] += 1, the read
CallerEnter(t) ==
    /\ threads[t].pc = "idle"
    /\ threads[t].started < MaxCallerAttempts
    /\ threads' = [threads EXCEPT ![t].pc = "count_total",
                                  ![t].reg = metrics.total_calls,
                                  ![t].started = threads[t].started + 1]
    /\ UNCHANGED <<metrics, circuit_breaker>>
    /\ UNCHANGED callerUnchanged

\* metrics['total_calls'] += 1, the write
CallerCountTotal(t) ==
    /\ threads[t].pc = "count_total"
    /\ metrics' = [metrics EXCEPT !.total_calls = threads[t].reg + 1]
    /\ threads' = SetThread(t, "admit", 0)
    /\ UNCHANGED circuit_breaker
    /\ UNCHANGED callerUnchanged

\* CircuitBreaker.call, the check of the state
CallerAdmit(t) ==
    /\ threads[t].pc = "admit"
    /\ LET admit == BreakerAdmit(circuit_breaker, now)
       IN IF admit.admitted
          THEN /\ circuit_breaker' = admit.cb
               /\ threads' = SetThread(t, "backend", 0)
          ELSE /\ circuit_breaker' = circuit_breaker
               /\ threads' = SetThread(t, "failed", 0)
    /\ UNCHANGED metrics
    /\ UNCHANGED callerUnchanged

\* the backend operation returns: the breaker's success branch, then
\* metrics['successful_calls'] += 1, the read
CallerBackendReturn(t) ==
    /\ threads[t].pc = "backend"
    /\ circuit_breaker' = BreakerOnSuccess(circuit_breaker)
    /\ threads' = SetThread(t, "count_successful", metrics.successful_calls)
    /\ UNCHANGED metrics
    /\ UNCHANGED callerUnchanged

\* metrics['successful_calls'] += 1, the write, and the average
CallerCountSuccessful(t) ==
    /\ threads[t].pc = "count_successful"
    /\ metrics' = update_average_response_time(
                      [metrics EXCEPT !.successful_calls = threads[t].reg + 1], 0)
    /\ threads' = SetThread(t, "idle", 0)
    /\ UNCHANGED circuit_breaker
    /\ UNCHANGED callerUnchanged

\* the backend operation raises: self.failure_count += 1, the read
CallerBackendRaise(t) ==
    /\ threads[t].pc = "backend"
    /\ threads' = SetThread(t, "count_failure", circuit_breaker.failure_count)
    /\ UNCHANGED <<metrics, circuit_breaker>>
    /\ UNCHANGED callerUnchanged

\* self.failure_count += 1, the write, and last_failure_time
CallerCountFailure(t) ==
    /\ threads[t].pc = "count_failure"
    /\ circuit_breaker' = [circuit_breaker EXCEPT
                               !.failure_count = threads[t].reg + 1,
                               !.last_failure_time = now]
    /\ threads' = [threads EXCEPT ![t].pc = "check_threshold",
                                  ![t].reg = 0,
                                  ![t].failures = threads[t].failures + 1]
    /\ UNCHANGED metrics
    /\ UNCHANGED callerUnchanged

\* if self.failure_count >= self.failure_threshold: self.state = 'OPEN'
CallerCheckThreshold(t) ==
    /\ threads[t].pc = "check_threshold"
    /\ circuit_breaker' =
           IF circuit_breaker.failure_count >= failure_threshold
           THEN [circuit_breaker EXCEPT !.state = "OPEN"]
           ELSE circuit_breaker
    /\ threads' = SetThread(t, "failed", 0)
    /\ UNCHANGED metrics
    /\ UNCHANGED callerUnchanged

\* the except clause: metrics['failed_calls'] += 1, the read
CallerFailed(t) ==
    /\ threads[t].pc = "failed"
    /\ threads' = SetThread(t, "count_failed", metrics.failed_calls)
    /\ UNCHANGED <<metrics, circuit_breaker>>
    /\ UNCHANGED callerUnchanged

\* metrics['failed_calls'] += 1, the write; the attempt is over
CallerCountFailed(t) ==
    /\ threads[t].pc = "count_failed"
    /\ metrics' = [metrics EXCEPT !.failed_calls = threads[t].reg + 1]
    /\ threads' = SetThread(t, "idle", 0)
    /\ UNCHANGED circuit_breaker
    /\ UNCHANGED callerUnchanged

NextConcurrent ==
    \E t \in Callers :
        \/ CallerEnter(t)
        \/ CallerCountTotal(t)
        \/ CallerAdmit(t)
        \/ CallerBackendReturn(t)
        \/ CallerCountSuccessful(t)
        \/ CallerBackendRaise(t)
        \/ CallerCountFailure(t)
        \/ CallerCheckThreshold(t)
        \/ CallerFailed(t)
        \/ CallerCountFailed(t)

SpecConcurrent == Init /\ [][NextConcurrent]_vars

\* ----------------------------------------- properties: registry, dispatcher
Registered == SeqToSet(regOrder)

\* the required parameters of registered tool name, from its registration
RequiredOf(name) ==
    LET c == regLatest[name]
    IN IF c.required_params.given THEN c.required_params.v
       ELSE IF "required" \in DOMAIN c.input_schema
            THEN c.input_schema.required ELSE <<>>

\* the arguments of the last call_tool, as a mapping
LastArguments ==
    IF lastOp.arguments.given THEN lastOp.arguments.v ELSE EmptyMap

\* the required parameters the last call_tool left out
Omits(name) == {p \in SeqToSet(RequiredOf(name)) : p \notin DOMAIN LastArguments}

\* an error envelope with this text
IsErrorEnvelope(r, text) ==
    /\ r.raised = FALSE
    /\ r.value.isError = TRUE
    /\ r.value.content = <<[type |-> "text", text |-> text]>>

\* a success envelope with this text
IsSuccessEnvelope(r, text) ==
    /\ r.raised = FALSE
    /\ r.value.isError = FALSE
    /\ r.value.content = <<[type |-> "text", text |-> text]>>

\* C1: call_tool on a name that is not registered, with any arguments or
\* none, raises nothing and returns an error envelope (isError = true) whose
\* text is the not-found message.
C1_UnknownToolGivesErrorEnvelope ==
    (lastOp.op = "call_tool" /\ lastOp.name \notin Registered)
        => IsErrorEnvelope(response, "Tool '" \o lastOp.name \o "' not found")

C1_Witness ==
    /\ lastOp.op = "call_tool"
    /\ lastOp.name = "nope"
    /\ lastOp.arguments = Omitted
    /\ Registered # {}
    /\ response.value.isError

\* the sequences that list every element of set S exactly once
Listings(S) ==
    {l \in [1..Cardinality(S) -> S] : \A p \in S : \E i \in DOMAIN l : l[i] = p}

\* C2: call_tool on a registered tool with one or more required parameters
\* left out returns an error envelope whose message lists every omitted
\* required parameter, and nothing else.
C2_AllMissingParamsListed ==
    (lastOp.op = "call_tool" /\ lastOp.name \in Registered
        /\ Omits(lastOp.name) # {})
        => \E l \in Listings(Omits(lastOp.name)) :
              IsErrorEnvelope(response,
                  "Missing required parameters for tool '" \o lastOp.name
                      \o "': " \o PyListRepr(l))

C2_Witness ==
    /\ lastOp.op = "call_tool"
    /\ lastOp.name = "create_project"
    /\ lastOp.name \in Registered
    /\ Omits(lastOp.name) = {"name", "code"}
    /\ response.value.isError

\* the last call_tool reached a handler whose body ran and raised e
HandlerRaised(e) ==
    /\ lastOp.op = "call_tool"
    /\ lastOp.name \in Registered
    /\ Omits(lastOp.name) = {}
    /\ \/ /\ regLatest[lastOp.name].handler.kind = "opaque"
          /\ lastOp.out = Raise(e)
       \/ /\ regLatest[lastOp.name].handler.kind = "api"
          /\ DOMAIN LastArguments = {"name", "code"}
          /\ lastOp.out.raised
          /\ e = HyperManagerAPIError("Failed to execute "
                     \o regLatest[lastOp.name].handler.op \o ": "
                     \o lastOp.out.exc.message)

\* the exceptions a handler is seen to raise
HandlerExceptions ==
    {o.exc : o \in {x \in Outcomes : x.raised}}
        \cup {HyperManagerAPIError("Failed to execute create_project: "
                                       \o o.exc.message) :
                o \in {x \in Outcomes : x.raised}}

\* C3: whenever the handler of a registered tool raises an exception, of
\* whatever type, call_tool raises nothing and returns an error envelope whose
\* text is "Tool execution failed: " followed by the exception's message.
C3_HandlerErrorPrefixed ==
    \A e \in HandlerExceptions :
        HandlerRaised(e)
            => IsErrorEnvelope(response, "Tool execution failed: " \o e.message)

\* the JSON text of the values the handlers return, as json.dumps prints them
JsonText(v) ==
    CASE v = JStr("hi") -> "\"hi\""
      [] v = JStr("ok") -> "\"ok\""
      [] v = JNull -> "null"
      [] v = JList(<<>>) -> "[]"
      [] v = JList(<<JStr("a"), JInt(1), JNull>>)
            -> "[\n  \"a\",\n  1,\n  null\n]"

\* the last call_tool reached a handler that returned r
HandlerReturned(r) ==
    /\ lastOp.op = "call_tool"
    /\ lastOp.name \in Registered
    /\ Omits(lastOp.name) = {}
    /\ \/ /\ regLatest[lastOp.name].handler.kind = "opaque"
          /\ lastOp.out = Return(r)
       \/ /\ regLatest[lastOp.name].handler.kind = "api"
          /\ DOMAIN LastArguments = {"name", "code"}
          /\ lastOp.out = Return(r)
       \/ /\ regLatest[lastOp.name].handler.kind = "echo"
          /\ DOMAIN LastArguments = {"msg"}
          /\ r = LastArguments["msg"]

HandlerValues ==
    {JStr("hi"), JStr("ok"), JNull, JList(<<>>),
     JList(<<JStr("a"), JInt(1), JNull>>)}

\* C4: when a registered tool is called with all its required parameters and
\* its handler returns r, call_tool returns a success envelope: one content
\* item of type "text" whose text is the JSON encoding of r, isError not true.
\* For tool echo requiring msg, echo {msg: "hi"} gives the text "hi" in
\* double quotes and echo {} gives an error envelope listing ['msg'].
C4_SuccessEnvelopeIsJson ==
    /\ \A r \in HandlerValues :
          HandlerReturned(r) => IsSuccessEnvelope(response, JsonText(r))
    /\ (lastOp.op = "call_tool" /\ lastOp.name = "echo"
          /\ "echo" \in Registered /\ RequiredOf("echo") = <<"msg">>
          /\ LastArguments = EmptyMap)
          => IsErrorEnvelope(response,
                 "Missing required parameters for tool 'echo': ['msg']")

C4_Witness ==
    /\ lastOp.op = "call_tool"
    /\ lastOp.name = "echo"
    /\ HandlerReturned(JStr("hi"))
    /\ response.value.content[1].text = "\"hi\""
    /\ ~response.value.isError

\* C5: a call_tool whose tool name is not registered, or that leaves out a
\* required parameter, never calls the tool handler: it makes no backend call
\* and leaves the cache, the circuit breaker and the metrics as they were.
C5_NoHandlerOnInvalidCall ==
    [][ (lastOp'.op = "call_tool"
           /\ (lastOp'.name \notin Registered
                 \/ \E p \in SeqToSet(RequiredOf(lastOp'.name)) :
                        p \notin DOMAIN (IF lastOp'.arguments.given
                                         THEN lastOp'.arguments.v ELSE EmptyMap)))
          => /\ handlerCalls' = 0
             /\ plainCalls' = 0
             /\ UNCHANGED <<backendCalls, cache, circuit_breaker, metrics>> ]_vars

C5_Witness ==
    /\ lastOp.op = "call_tool"
    /\ lastOp.name = "create_project"
    /\ lastOp.name \in Registered
    /\ Omits(lastOp.name) = {"code"}
    /\ handlerCalls = 0
    /\ response.value.isError

\* a valid call does reach the handler and the backend
C5_ValidCallReachesBackend ==
    /\ lastOp.op = "call_tool"
    /\ handlerCalls = 1
    /\ plainCalls = 1

\* what list_tools has to return: the registered names in order of first
\* registration, each with the description and schema registered last
ExpectedListing ==
    [i \in 1..Len(regOrder) |->
        [name |-> regOrder[i],
         description |-> regLatest[regOrder[i]].description,
         inputSchema |-> regLatest[regOrder[i]].input_schema]]

\* C10: after any sequence of registrations list_tools returns one summary
\* per registered tool, in registration order, with the name, description and
\* inputSchema that were registered; calling it again with no registration in
\* between returns the same sequence.
C10_ListInRegistrationOrder ==
    [][ /\ listed' # NoOutcome => listed' = Return(ExpectedListing')
        /\ (listed # NoOutcome /\ listed' # NoOutcome) => listed' = listed ]_vars

C10_Witness ==
    /\ lastOp.op = "list_tools"
    /\ listed # NoOutcome
    /\ Len(listed.value) = 3
    /\ listed.value[1].name = "create_project"
    /\ listed.value[2].description = "Echo (no required list)"

\* ------------------------------------------------ properties: the breaker
\* this step is an attempt that gets past the cache lookup to the breaker
BreakerAsked ==
    /\ pc = "enter"
    /\ lastOp'.op = "enter"
    /\ trace' # Append(trace, "hit")

\* the recovery timeout has passed since the last failure
TimeoutElapsed ==
    now - circuit_breaker.last_failure_time > recovery_timeout * TicksPerSecond

\* this step is the backend operation returning normally
BackendSucceeds == pc = "backend" /\ lastOp'.op = "backend_return"

\* this step is the backend operation raising
BackendFails == pc = "backend" /\ lastOp'.op = "backend_raise"

\* C6: once failure_threshold (5) calls in a row have failed, the breaker is
\* OPEN; and while it is OPEN with now - last_failure_time <= recovery_timeout
\* a call fails at once with the circuit-open error, the backend operation
\* not invoked.
C6_OpensAfterThresholdAndRejects ==
    [][ /\ (BackendFails /\ streak' >= failure_threshold)
            => circuit_breaker'.state = "OPEN"
        /\ (BreakerAsked /\ circuit_breaker.state = "OPEN" /\ ~TimeoutElapsed)
            => /\ backendCalls' = backendCalls
               /\ pc' # "backend"
               /\ call'.last_exception.message =
                      "HyperManager API error: Failed to execute " \o call.op
                          \o ": HyperManager API error: Circuit breaker is OPEN"
               /\ now' = now ]_vars

\* five failures in a row from a new breaker opened it, and a later call,
\* made exactly recovery_timeout after the last failure, was rejected
C6_Witness ==
    /\ streak = failure_threshold
    /\ circuit_breaker.failure_count = failure_threshold
    /\ circuit_breaker.state = "OPEN"
    /\ now - circuit_breaker.last_failure_time = recovery_timeout * TicksPerSecond
    /\ lastOp.op = "enter"
    /\ trace = <<"rejected">>
    /\ backendCalls = failure_threshold

\* C7: when the breaker is OPEN and more than recovery_timeout has passed
\* since last_failure_time, the next call moves it to HALF_OPEN and invokes the
\* backend operation; if that call succeeds the breaker is CLOSED with
\* failure_count 0.
C7_HalfOpenTrialCloses ==
    [][ /\ (BreakerAsked /\ circuit_breaker.state = "OPEN" /\ TimeoutElapsed)
            => /\ circuit_breaker'.state = "HALF_OPEN"
               /\ pc' = "backend"
               /\ backendCalls' = backendCalls + 1
        /\ (BackendSucceeds /\ circuit_breaker.state = "HALF_OPEN")
            => /\ circuit_breaker'.state = "CLOSED"
               /\ circuit_breaker'.failure_count = 0 ]_vars

\* the breaker opened, the timeout passed, the trial call succeeded
C7_Witness ==
    /\ lastOp.op = "backend_return"
    /\ metrics.failed_calls >= failure_threshold
    /\ circuit_breaker.last_failure_time # NoTime
    /\ now - circuit_breaker.last_failure_time > recovery_timeout * TicksPerSecond
    /\ circuit_breaker.state = "CLOSED"
    /\ circuit_breaker.failure_count = 0
    /\ trace = <<"ok">>

\* C9: with a new breaker (CLOSED, failure_count 0) and max_retries = 3, a
\* call whose backend operation fails on the first two attempts and succeeds
\* on the third returns that result, the backend operation having been invoked
\* exactly 3 times.
C9_SucceedsOnThirdAttempt ==
    (call.fresh /\ Len(trace) >= 2 /\ trace[1] = "fail" /\ trace[2] = "fail")
        => /\ Len(trace) = 2 => pc \in {"sleep", "enter", "backend"}
           /\ Len(trace) >= 3 => trace[3] \in {"ok", "fail"}
           /\ (Len(trace) = 3 /\ trace[3] = "ok")
                  => /\ pc = "idle"
                     /\ outcome \in {Return(r) : r \in BackendResults}
                     /\ lastOp.op = "backend_return"
                            => outcome = Return(lastOp.result)
                     /\ backendCalls - call.calls0 = 3
                     /\ call.attempt = 2

C9_Witness ==
    /\ call.fresh
    /\ trace = <<"fail", "fail", "ok">>
    /\ pc = "idle"
    /\ outcome = Return(JStr("ok"))
    /\ backendCalls = 3

\* --------------------------------------------------- properties: the cache
\* the cache key of the call in progress
CallKey == generate_cache_key(call.op, call.args, call.kwargs)

\* this step is an attempt of a cacheable operation looking its key up
CacheAsked ==
    /\ pc = "enter"
    /\ lastOp'.op = "enter"
    /\ is_cacheable_operation(call.op)

\* an earlier call with the same arguments stored its result, and the TTL of
\* that result has not passed
StoredWithinTtl == CallKey \in DOMAIN cache /\ now < cache[CallKey].expires

\* an earlier call with the same arguments stored its result, and the TTL of
\* that result has passed
StoredTtlElapsed == CallKey \in DOMAIN cache /\ now >= cache[CallKey].expires

\* C8: a call of a cacheable operation made within the TTL of the result an
\* earlier call with the same arguments stored returns the stored result and
\* does not invoke the backend operation (two calls, one invocation); a call
\* made after the TTL has passed invokes the backend operation again.
C8_SecondCallServedFromCache ==
    [][ /\ (CacheAsked /\ StoredWithinTtl)
            => /\ backendCalls' = backendCalls
               /\ pc' = "idle"
               /\ outcome' = Return(cache[CallKey].value)
        /\ (CacheAsked /\ StoredTtlElapsed /\ circuit_breaker.state = "CLOSED")
            => /\ backendCalls' = backendCalls + 1
               /\ pc' = "backend" ]_vars

\* ------------------------------------- properties: registration, validation
\* the positions of the registry that hold a definition for name
DefinitionsOf(name) == {i \in 1..Len(tools) : tools[i].name = name}

\* C11: registering a name that is already registered replaces the previous
\* definition: get_tool(name) returns the description, schema, required
\* parameters and handler registered last, and the registry holds exactly one
\* definition for the name.
C11_ReregisterReplaces ==
    \A name \in Registered :
        /\ Cardinality(DefinitionsOf(name)) = 1
        /\ get_tool(tools, name) =
               Return([name |-> name,
                       description |-> regLatest[name].description,
                       input_schema |-> regLatest[name].input_schema,
                       handler |-> regLatest[name].handler,
                       required_params |-> RequiredOf(name)])

\* echo was registered first, two other tools after it, and then echo again
\* with another description and schema
C11_Witness ==
    /\ lastOp.op = "register_tool"
    /\ lastOp.name = "echo"
    /\ Len(tools) = 3
    /\ tools[1].name = "echo"
    /\ tools[1].description = "Echo (no required list)"
    /\ tools[1].required_params = <<>>

\* the outcome of validate_parameters for the last call_tool
LastValidation == validate_parameters(tools, lastOp.name, LastArguments)

\* C12: for a registered tool, validate_parameters succeeds if and only if
\* every required parameter is a key of the arguments, whatever the values
\* (None included) and the extra keys; when it fails, missing_params is
\* exactly the required parameters the arguments leave out.
C12_ValidationChecksPresenceOnly ==
    (lastOp.op = "call_tool" /\ lastOp.name \in Registered)
        => /\ ~LastValidation.raised <=> Omits(lastOp.name) = {}
           /\ ~LastValidation.raised => handlerCalls = 1
           /\ LastValidation.raised
                  => /\ LastValidation.exc.type = "ValidationError"
                     /\ SeqToSet(LastValidation.exc.missing_params)
                            = Omits(lastOp.name)
                     /\ Len(LastValidation.exc.missing_params)
                            = Cardinality(Omits(lastOp.name))
                     /\ handlerCalls = 0
                     /\ IsErrorEnvelope(response, LastValidation.exc.message)

\* echo, which requires msg, called with msg = None: validation passes and
\* the handler returns None
C12_Witness ==
    /\ lastOp.op = "call_tool"
    /\ lastOp.name = "echo"
    /\ "echo" \in Registered
    /\ RequiredOf("echo") = <<"msg">>
    /\ lastOp.arguments = Given([msg |-> JNull])
    /\ handlerCalls = 1
    /\ IsSuccessEnvelope(response, "null")

\* C13: registered without required_params, a tool's required parameters are
\* the schema's "required" list, or the empty list when the schema has none;
\* registered with required_params, the empty list included, they are the
\* given list and not the schema's.
C13_RequiredParamsDefault ==
    \A name \in Registered :
        LET c == regLatest[name]
            stored == get_tool(tools, name).value.required_params
        IN /\ c.required_params.given => stored = c.required_params.v
           /\ (~c.required_params.given /\ "required" \in DOMAIN c.input_schema)
                  => stored = c.input_schema.required
           /\ (~c.required_params.given /\ "required" \notin DOMAIN c.input_schema)
                  => stored = <<>>

\* all three cases in one registry: the schema's list, no list in the schema,
\* and an explicit empty list against a schema that requires id
C13_Witness ==
    /\ Registered = {"echo", "create_project", "custom"}
    /\ get_tool(tools, "create_project").value.required_params = <<"name", "code">>
    /\ regLatest["echo"].required_params = Omitted
    /\ "required" \notin DOMAIN regLatest["echo"].input_schema
    /\ get_tool(tools, "echo").value.required_params = <<>>
    /\ regLatest["custom"].required_params = Given(<<>>)
    /\ regLatest["custom"].input_schema.required = <<"id">>
    /\ get_tool(tools, "custom").value.required_params = <<>>

\* ----------------------------------------------- properties: the cache key
\* the calls that name the operation and the (name, value) pairs of the call
\* in progress, the pairs written in any order
SamePairs ==
    {c \in KeyChoices : /\ c.op = call.op
                        /\ c.args = call.args
                        /\ SeqToSet(c.kwargs) = SeqToSet(call.kwargs)}

\* C14: the cache key depends on the operation name and the set of (name,
\* value) pairs only, not on the order the named arguments are written in: a
\* call finds the entry stored by a call with the same pairs in another order.
C14_KeyIgnoresKeywordOrder ==
    [][ CacheAsked
        => \A c \in SamePairs :
              LET k == generate_cache_key(c.op, c.args, c.kwargs)
              IN /\ k = CallKey
                 /\ (k \in DOMAIN cache /\ now < cache[k].expires)
                        => /\ backendCalls' = backendCalls
                           /\ outcome' = Return(cache[k].value)
                           /\ metrics'.cache_hits = metrics.cache_hits + 1
                           /\ cache' = cache ]_vars

\* a call written b, a is served the result that a call written a, b stored
C14_Witness ==
    /\ call.kwargs = <<<<"b", JInt(2)>>, <<"a", JInt(1)>>>>
    /\ trace = <<"hit">>
    /\ outcome = Return(JStr("a"))
    /\ DOMAIN cache = {"get_project|a=1|b=2"}
    /\ backendCalls = 1
    /\ metrics.total_calls = 2

\* ------------------------------------------------- properties: the metrics
\* C15: once the invocations made so far are over, N of them counted as
\* successful and M as failed with N + M > 0, get_metrics reports
\* success_rate_percent = round(N / (N + M) * 100, 2).
C15_SuccessRateOfSucceededAndFailed ==
    (pc = "idle" /\ metrics.successful_calls + metrics.failed_calls > 0)
        => get_metrics(metrics, circuit_breaker).success_rate_percent
               = RoundPercent(metrics.successful_calls,
                              metrics.successful_calls + metrics.failed_calls)

\* -------------------------------------- properties: failures, the allow-list
\* the message of the error under the failure the caller sees: the breaker's
\* when the last attempt was rejected, else the backend operation's
UnderlyingMessages ==
    IF trace[Len(trace)] = "rejected"
    THEN {CircuitOpenError.message}
    ELSE {e.message : e \in BackendErrors}

\* C16: every failure execute_with_error_handling lets reach its caller, from
\* the backend operation once the retries are used up or from the breaker
\* rejecting the call, is a HyperManagerAPIError whose message names the
\* operation and contains the message of the underlying error.
C16_FailuresAreWrapped ==
    (outcome # NoOutcome /\ outcome.raised)
        => /\ pc = "idle"
           /\ outcome.exc.type = "HyperManagerAPIError"
           /\ \E m \in UnderlyingMessages :
                  outcome.exc.message =
                      "HyperManager API error: Failed to execute "
                          \o call.op \o ": " \o m

\* the backend operation raised ConnectionError on all four attempts
C16_Witness ==
    /\ trace = <<"fail", "fail", "fail", "fail">>
    /\ pc = "idle"
    /\ outcome # NoOutcome
    /\ outcome.raised
    /\ outcome.exc.message =
           "HyperManager API error: Failed to execute create_project: connection refused"

\* the operation names of the services that change something at the backend
WriteOperations ==
    {"create_project", "update_project", "delete_project",
     "create_diagram", "update_diagram", "update_diagram_definition",
     "update_diagram_graphic", "clone_diagram",
     "add_actor", "update_actor", "delete_actor", "add_story_to_actor",
     "update_story", "delete_story", "move_story", "add_feature_to_story",
     "update_feature", "delete_feature", "move_feature",
     "add_child_feature", "adopt_child_feature",
     "refresh_feature_types", "normalize_tasks"}

\* C17: a call of an operation outside the cacheable allow-list neither reads
\* nor writes the cache: every attempt goes to the breaker and the cache is
\* the same afterwards; and no write operation is in the allow-list.
C17_UncachedOperationsSkipCache ==
    /\ \A op \in WriteOperations : ~is_cacheable_operation(op)
    /\ [][ (pc # "idle" /\ ~is_cacheable_operation(call.op))
              => /\ cache' = cache
                 /\ metrics'.cache_hits = metrics.cache_hits
                 /\ (pc = "enter" /\ lastOp'.op = "enter")
                        => \/ pc' = "backend" /\ backendCalls' = backendCalls + 1
                           \/ trace' = Append(trace, "rejected") ]_vars

\* create_project went to the backend and returned while the cache held the
\* result of an earlier list_projects, which is still all it holds
C17_Witness ==
    /\ pc = "idle"
    /\ call.op = "create_project"
    /\ trace = <<"ok">>
    /\ DOMAIN cache = {"list_projects"}
    /\ now < cache["list_projects"].expires
    /\ metrics.cache_hits = 0

\* ------------------------------------------ properties: concurrent callers
\* no caller is inside an attempt
Quiescent == \A t \in Callers : threads[t].pc = "idle"

RECURSIVE SumOver(_, _)
\* the sum of field over the callers in S
SumOver(S, field) ==
    IF S = {} THEN 0
    ELSE LET t == CHOOSE x \in S : TRUE
         IN threads[t][field] + SumOver(S \ {t}, field)

\* C18: with several callers on the one client no counter update is lost:
\* once k concurrent attempts are over total_calls has grown by exactly k, and
\* once k of them failed at the backend the breaker's failure_count has grown
\* by exactly k, so that failure_threshold concurrent failures open it.
C18_NoLostUpdate ==
    Quiescent
        => /\ metrics.total_calls = SumOver(Callers, "started")
           /\ circuit_breaker.failure_count = SumOver(Callers, "failures")
           /\ SumOver(Callers, "failures") >= failure_threshold
                  => circuit_breaker.state = "OPEN"

\* ------------------------------------ properties: the breaker and the retries
\* C19: failure_count counts consecutive failures only: a successful call
\* while the breaker is CLOSED resets it to 0, so that the breaker opens only
\* on failure_threshold failures in a row, never on failures that successful
\* calls separate.
C19_FailureCountIsConsecutive ==
    [][ /\ (BackendSucceeds /\ circuit_breaker.state = "CLOSED")
            => circuit_breaker'.failure_count = 0
        /\ (BackendFails /\ circuit_breaker.state = "CLOSED"
                /\ circuit_breaker'.state = "OPEN")
            => streak' >= failure_threshold ]_vars

\* C20: the circuit-open error is not retried: an attempt the OPEN breaker
\* rejects, on the first attempt of a call or after the breaker opened during
\* the call's retries, ends the call with the circuit-open error, with no
\* further attempt and no backoff sleep.
C20_CircuitOpenNotRetried ==
    [][ (BreakerAsked /\ trace' = Append(trace, "rejected"))
            => /\ pc' = "idle"
               /\ outcome' = Raise(WrapFailure(call.op, CircuitOpenError)) ]_vars

\* ---------------------------------------- properties: counting invocations
\* this step is an attempt entering execute_with_error_handling
AttemptEnters == pc = "enter" /\ lastOp'.op = "enter"

\* C21: one call of the client by its caller increases total_calls by exactly
\* one, at entry, however it ends: the first attempt counts, a retry of the
\* same call does not count again, and nothing else changes total_calls.
C21_OneTotalCallPerInvocation ==
    [][ /\ (AttemptEnters /\ call.attempt = 0)
            => metrics'.total_calls = metrics.total_calls + 1
        /\ (AttemptEnters /\ call.attempt > 0)
            => metrics'.total_calls = metrics.total_calls
        /\ ~AttemptEnters
            => metrics'.total_calls = metrics.total_calls ]_vars

\* ------------------------------------------------ properties: the cache hit
\* this step is an attempt served from the cache
CacheHit == AttemptEnters /\ trace' = Append(trace, "hit")

\* C22: on a cache hit the call increments cache_hits by one and returns the
\* cached value, the backend operation is not invoked and the breaker's state,
\* failure_count and last_failure_time stay as they are; the cache is looked
\* up before the breaker, so a stored value is served while the breaker is
\* OPEN too.
C22_CacheHitLeavesBreakerAlone ==
    [][ /\ CacheHit
            => /\ metrics'.cache_hits = metrics.cache_hits + 1
               /\ outcome' = Return(cache[CallKey].value)
               /\ pc' = "idle"
               /\ backendCalls' = backendCalls
               /\ circuit_breaker' = circuit_breaker
               /\ metrics'.failed_calls = metrics.failed_calls
               /\ metrics'.successful_calls = metrics.successful_calls
        /\ (CacheAsked /\ StoredWithinTtl /\ cache[CallKey].value # JNull
                /\ circuit_breaker.state = "OPEN")
            => CacheHit ]_vars

\* get_project is served from the cache while the breaker is OPEN and would
\* reject a call
C22_Witness ==
    /\ trace = <<"hit">>
    /\ call.op = "get_project"
    /\ outcome = Return(JStr("ok"))
    /\ circuit_breaker.state = "OPEN"
    /\ now - circuit_breaker.last_failure_time <= recovery_timeout * TicksPerSecond
    /\ backendCalls = 7

\* ------------------------------------------- properties: the retry schedule
\* C23: a call whose every attempt fails ends after at most max_retries + 1
\* = 4 attempts: it sleeps 0.3 s, 0.6 s and 1.2 s (3, 6 and 12 ticks) after
\* failed attempts 0, 1 and 2, does not sleep after the last attempt, and then
\* raises the failure of the last attempt.
C23_RetryScheduleIsBounded ==
    /\ Len(trace) <= 4
    /\ call.slept = SubSeq(<<3, 6, 12>>, 1, Len(call.slept))
    /\ pc = "sleep" => Len(call.slept) = Len(trace) - 1 /\ Len(trace) <= 3
    /\ pc \in {"enter", "backend"} => Len(call.slept) = Len(trace)
    /\ (Len(trace) = 4 /\ trace[4] # "ok")
           => /\ pc = "idle"
              /\ call.slept = <<3, 6, 12>>
              /\ outcome = Raise(call.last_exception)
    /\ (outcome # NoOutcome /\ outcome.raised) => Len(trace) = 4

\* four failed attempts at times 0, 0.3, 0.9 and 2.1 s, and the failure is
\* raised at 2.1 s
C23_Witness ==
    /\ trace = <<"fail", "fail", "fail", "fail">>
    /\ call.slept = <<3, 6, 12>>
    /\ call.attempt = 3
    /\ now = 21
    /\ lastOp.op = "backend_raise"
    /\ outcome = Raise(call.last_exception)
    /\ backendCalls = 4

\* ------------------------------------------- properties: storing, expiring
\* C24: when the backend operation of a cacheable call returns at time t, the
\* result is stored under the call's key with expiry t + 300 s for an
\* operation whose name contains "list" and t + 60 s otherwise, nothing else
\* in the cache changing; a failed attempt stores nothing.
C24_StoreWithTtlByName ==
    [][ /\ (BackendSucceeds /\ call.op = "list_projects")
            => cache' = DictPut(cache, CallKey,
                                [value |-> lastOp'.result, expires |-> now + 3000])
        /\ (BackendSucceeds /\ call.op = "get_project")
            => cache' = DictPut(cache, CallKey,
                                [value |-> lastOp'.result, expires |-> now + 600])
        /\ BackendFails => cache' = cache
        /\ (AttemptEnters /\ trace' = Append(trace, "rejected"))
            => \A k \in DOMAIN cache' : k \in DOMAIN cache /\ cache'[k] = cache[k]
      ]_vars

\* list_projects returned at time 0 and get_project has just returned at 0.1 s
C24_Witness ==
    /\ lastOp.op = "backend_return"
    /\ call.op = "get_project"
    /\ now = 1
    /\ DOMAIN cache = {"list_projects", "get_project|project_id=p1"}
    /\ cache["list_projects"].expires = 3000
    /\ cache["get_project|project_id=p1"] = [value |-> JStr("ok"), expires |-> 601]

\* C25: APICache.get(key) gives the stored value only while now < expires; at
\* or after expires it reports the key absent and removes the key's entry; in
\* no case does it remove or change the entry of another key.
C25_LazyExpiryPerKey ==
    [][ CacheAsked
        => /\ StoredWithinTtl
                => /\ cache_get(cache, CallKey, now).value = cache[CallKey].value
                   /\ cache' = cache
                   /\ cache[CallKey].value # JNull => CacheHit
           /\ StoredTtlElapsed
                => /\ cache_get(cache, CallKey, now).value = JNull
                   /\ CallKey \notin DOMAIN cache'
                   /\ ~CacheHit
           /\ CallKey \notin DOMAIN cache => cache' = cache /\ ~CacheHit
           /\ \A k \in DOMAIN cache \ {CallKey} :
                  k \in DOMAIN cache' /\ cache'[k] = cache[k] ]_vars

\* get_project, stored at time 0 for 60 s, is looked up at exactly 60 s: the
\* entry is gone and the backend is called, the list_projects entry is kept
C25_Witness ==
    /\ lastOp.op = "enter"
    /\ pc = "backend"
    /\ call.op = "get_project"
    /\ now = 600
    /\ metrics.successful_calls = 2
    /\ metrics.failed_calls = 0
    /\ metrics.total_calls = 3
    /\ DOMAIN cache = {"list_projects"}
    /\ cache["list_projects"].expires = 3000

\* ------------------------------------- properties: the breaker's life cycle
\* this step is an attempt the OPEN breaker rejects
Rejected == BreakerAsked /\ trace' = Append(trace, "rejected")

\* C26: in every state the sequential client reaches, a CLOSED breaker has
\* failure_count < failure_threshold, and an OPEN or HALF_OPEN breaker has
\* failure_count >= failure_threshold and last_failure_time set.
C26_StateAgreesWithCount ==
    /\ circuit_breaker.state \in {"CLOSED", "OPEN", "HALF_OPEN"}
    /\ circuit_breaker.state = "CLOSED"
           => circuit_breaker.failure_count < failure_threshold
    /\ circuit_breaker.state \in {"OPEN", "HALF_OPEN"}
           => /\ circuit_breaker.failure_count >= failure_threshold
              /\ circuit_breaker.last_failure_time # NoTime

\* the trial call is at the backend, the breaker HALF_OPEN
C26_Witness ==
    /\ circuit_breaker.state = "HALF_OPEN"
    /\ circuit_breaker.failure_count = failure_threshold
    /\ pc = "backend"
    /\ now - circuit_breaker.last_failure_time > recovery_timeout * TicksPerSecond

\* C27: when the trial call made in HALF_OPEN fails, the breaker goes back to
\* OPEN with last_failure_time the time of that failure, never to CLOSED, and
\* calls are rejected again, the backend not reached, until a whole
\* recovery_timeout has passed since that failure.
C27_FailedTrialReopens ==
    [][ /\ (BackendFails /\ circuit_breaker.state = "HALF_OPEN")
            => /\ circuit_breaker'.state = "OPEN"
               /\ circuit_breaker'.last_failure_time = now
               /\ circuit_breaker'.failure_count
                      = circuit_breaker.failure_count + 1
        /\ (BreakerAsked /\ circuit_breaker.state = "OPEN"
                /\ circuit_breaker.failure_count > failure_threshold
                /\ now - circuit_breaker.last_failure_time
                       <= recovery_timeout * TicksPerSecond)
            => /\ Rejected
               /\ backendCalls' = backendCalls
               /\ pc' # "backend" ]_vars

\* the trial call failed and the retry that follows 0.3 s later is rejected
C27_Witness ==
    /\ trace = <<"fail", "rejected">>
    /\ circuit_breaker.state = "OPEN"
    /\ circuit_breaker.failure_count = failure_threshold + 1
    /\ now - circuit_breaker.last_failure_time = 3
    /\ call.start_time > recovery_timeout * TicksPerSecond

\* C28: a call the OPEN breaker rejects leaves the breaker's state,
\* failure_count and last_failure_time as they were, so rejections never put
\* off the recovery: once recovery_timeout has passed since the last failure
\* of the backend, the next call is let through, however many were rejected.
C28_RejectionLeavesBreakerAlone ==
    [][ /\ Rejected => circuit_breaker' = circuit_breaker
        /\ (BreakerAsked /\ circuit_breaker.state = "OPEN" /\ TimeoutElapsed)
            => /\ ~Rejected
               /\ pc' = "backend"
               /\ circuit_breaker'.last_failure_time
                      = circuit_breaker.last_failure_time ]_vars

\* five failures, three rejected attempts, then a call more than 60 s after
\* the fifth failure, the last failure of the backend, is let through
C28_Witness ==
    /\ lastOp.op = "enter"
    /\ pc = "backend"
    /\ circuit_breaker.state = "HALF_OPEN"
    /\ circuit_breaker.failure_count = failure_threshold
    /\ metrics.failed_calls = failure_threshold + 3
    /\ now - circuit_breaker.last_failure_time
           > recovery_timeout * TicksPerSecond

\* ------------------------------------------ properties: the metrics' balance
\* C29: in a sequential execution, whenever no attempt is in progress,
\* total_calls = successful_calls + failed_calls + cache_hits: every attempt
\* increments total_calls and exactly one of the other three; and
\* average_response_time changes only when an attempt succeeds.
C29_CountersBalance ==
    /\ [](/\ pc \in {"idle", "sleep", "enter"}
              => metrics.total_calls = metrics.successful_calls
                      + metrics.failed_calls + metrics.cache_hits
          /\ pc = "backend"
              => metrics.total_calls = metrics.successful_calls
                      + metrics.failed_calls + metrics.cache_hits + 1)
    /\ [][ metrics'.average_response_time # metrics.average_response_time
              => BackendSucceeds ]_vars

\* a success, a failure and a cache hit have been counted, and the average
\* has moved
C29_Witness ==
    /\ pc = "idle"
    /\ metrics.successful_calls >= 1
    /\ metrics.failed_calls >= 1
    /\ metrics.cache_hits >= 1
    /\ metrics.average_response_time # [num |-> 0, den |-> 1]

====
